---- MODULE Spec2Model ----
(***************************************************************************)
(* makemock: a regex based generator of gmock MOCK_METHOD lines from C++   *)
(* header text (src/makemock.py).  Text is modelled by TLA+ strings, read  *)
(* character by character; the regular expressions of the source are       *)
(* modelled by matchers that follow Python's backtracking order (greedy     *)
(* quantifiers give back one character at a time, an optional group is      *)
(* tried before it is skipped).                                             *)
(***************************************************************************)
EXTENDS Integers, Sequences, FiniteSets, TLC

VARIABLES
    pc,                   \* position in the running call
    input,                \* how the input text was built (never written)
    target_class,         \* MockMaker.target_class: <<>> is None, <<name>> a name
    content,              \* the text find_methods_to_mock works on
    lines,                \* content.split("\n")
    li,                   \* index of the next line of the scan loop
    count,                \* BraceCounter.count
    class_brace_level,    \* <<>> is None, <<n>> the baseline depth
    content_of_interest,  \* the lines collected by the scan
    collected,            \* history: the indexes of the lines collected
    open_line,            \* history: index of the line that set class_brace_level
    stop_line,            \* history: index of the line on which the scan broke
    methods,              \* the MockMethod tuples found
    output,               \* what make_mock wrote
    method,               \* argument of generate_default_delegation
    args,                 \* the split parameter list of the delegation
    index,                \* enumerate() index of the delegation loop
    arg_pholders,
    arg_names,
    arg_type_and_names,
    result                \* return value of generate_default_delegation

vars == <<pc, input, target_class, content, lines, li, count, class_brace_level,
          content_of_interest, collected, open_line, stop_line, methods, output,
          method, args, index, arg_pholders, arg_names, arg_type_and_names, result>>

scanVars == <<lines, li, count, class_brace_level, content_of_interest,
              collected, open_line, stop_line>>

delegVars == <<method, args, index, arg_pholders, arg_names,
               arg_type_and_names, result>>

(***************************************************************************)
(* Bounds of the model.                                                    *)
(***************************************************************************)
MaxLines == 4       \* lines of a header text
MaxQuals == 2       \* trailing qualifier words of a declaration
MaxArgs == 2        \* parameters of a delegated method

(***************************************************************************)
(* Characters and strings.                                                 *)
(***************************************************************************)
Lower == {"a","b","c","d","e","f","g","h","i","j","k","l","m",
          "n","o","p","q","r","s","t","u","v","w","x","y","z"}

Upper == {"A","B","C","D","E","F","G","H","I","J","K","L","M",
          "N","O","P","Q","R","S","T","U","V","W","X","Y","Z"}

Digit == {"0","1","2","3","4","5","6","7","8","9"}

\* Text is over the characters U+0000..U+00FF, the ones a string literal of
\* the model can hold.  The patterns are str patterns, so \w and \s are the
\* Unicode classes; below are their members in that range.

\* The characters above U+007F for which str.isalnum() holds.
Latin1Word == {"ª","²","³","µ","¹","º","¼","½","¾","À","Á","Â","Ã","Ä","Å","Æ",
               "Ç","È","É","Ê","Ë","Ì","Í","Î","Ï","Ð","Ñ","Ò","Ó","Ô","Õ","Ö",
               "Ø","Ù","Ú","Û","Ü","Ý","Þ","ß","à","á","â","ã","ä","å","æ","ç",
               "è","é","ê","ë","ì","í","î","ï","ð","ñ","ò","ó","ô","õ","ö","ø",
               "ù","ú","û","ü","ý","þ","ÿ"}

\* \w of the re module
WordCh == Lower \cup Upper \cup Digit \cup {"_"} \cup Latin1Word

\* The whitespace other than blank, tab, newline, return and form feed:
\* U+000B, U+001C..U+001F, U+0085 and U+00A0.
OtherSpace == {"", "", "", "", "", "", " "}

\* \s of the re module, also the separators of str.split()
SpaceCh == {" ", "\t", "\n", "\r", "\f"} \cup OtherSpace

\* [\w:<>,\s&*] of the ret_type group
RetCh == WordCh \cup SpaceCh \cup {":", "<", ">", ",", "&", "*"}

\* [:\w] of the arg_type group
ArgTypeCh == WordCh \cup {":"}

\* The character of s at position i (1-based); "" past either end.
Ch(s, i) == IF i >= 1 /\ i <= Len(s) THEN SubSeq(s, i, i) ELSE ""

\* s[i-1:] of Python for a 1-based i.
From(s, i) == SubSeq(s, i, Len(s))

\* Whether sub occurs in s at position i.
StartsWith(s, i, sub) ==
    /\ i >= 1
    /\ i + Len(sub) - 1 <= Len(s)
    /\ SubSeq(s, i, i + Len(sub) - 1) = sub

\* Python's `sub in s`.
Contains(s, sub) == \E i \in 1..(Len(s) - Len(sub) + 1) : StartsWith(s, i, sub)

RECURSIVE Span(_, _, _, _)
\* The number of consecutive characters of s from position i on whose
\* membership in cls is `member`: the longest run a greedy X* can take.
Span(s, i, cls, member) ==
    IF i <= Len(s) /\ ((Ch(s, i) \in cls) = member)
    THEN 1 + Span(s, i + 1, cls, member)
    ELSE 0

RECURSIVE CountCh(_, _)
\* str.count(c) for a one-character c.
CountCh(s, c) ==
    IF s = "" THEN 0
    ELSE (IF Ch(s, 1) = c THEN 1 ELSE 0) + CountCh(From(s, 2), c)

RECURSIVE SplitOn(_, _)
\* str.split(sep) for a one-character sep, and re.split of a character class:
\* the pieces between the separators, empty pieces kept.
SplitOn(s, seps) ==
    LET n == Span(s, 1, seps, FALSE)
    IN  IF n = Len(s) THEN <<s>>
        ELSE <<SubSeq(s, 1, n)>> \o SplitOn(From(s, n + 2), seps)

RECURSIVE SplitWords(_)
\* str.split() without argument: the runs of non-whitespace characters.
SplitWords(s) ==
    LET w == Span(s, 1, SpaceCh, TRUE)
        n == Span(s, w + 1, SpaceCh, FALSE)
    IN  IF n = 0 THEN <<>>
        ELSE <<SubSeq(s, w + 1, w + n)>> \o SplitWords(From(s, w + n + 1))

RECURSIVE Join(_, _)
\* sep.join(seq)
Join(seq, sep) ==
    IF seq = <<>> THEN ""
    ELSE IF Len(seq) = 1 THEN seq[1]
    ELSE seq[1] \o sep \o Join(Tail(seq), sep)

RECURSIVE RemoveCh(_, _)
\* str.replace(c, "") for a one-character c.
RemoveCh(s, c) ==
    IF s = "" THEN ""
    ELSE IF Ch(s, 1) = c THEN RemoveCh(From(s, 2), c)
    ELSE Ch(s, 1) \o RemoveCh(From(s, 2), c)

Max(S) == CHOOSE x \in S : \A y \in S : y <= x

\* `x in seq` for a Python list.
InList(x, seq) == \E i \in 1..Len(seq) : seq[i] = x

\* Python's None where a string is expected (no \w+ capture can equal it).
None == "<None>"

\* MockMaker.method_decl_re, matched with re.match (anchored at the start only):
\*   ^\s*(?P<virtual>virtual)?\s*(?P<ret_type>[\w:<>,\s&*]+)\s+(?P<name>\w+)
\*   (?P<params>\([^\)]*\))(?P<qualifiers>(?:\s*\w+)*)(\s*=.*)?
NoMatch == [matched |-> FALSE, virtual |-> FALSE, ret_type |-> "", name |-> "",
            params |-> "", qualifiers |-> ""]

RECURSIVE QualEnd(_, _)
\* (?:\s*\w+)* from position i: the position after the last word taken.  The
\* group is greedy and nothing required follows it, so it is never given back.
QualEnd(s, i) ==
    LET w == Span(s, i, SpaceCh, TRUE)
        n == Span(s, i + w, WordCh, TRUE)
    IN  IF n = 0 THEN i ELSE QualEnd(s, i + w + n)

\* Whether \s+ (w characters) then name (k characters) then params match
\* after a ret_type that ends at position r.
NameAndParamsAt(s, r, w, k) ==
    LET o == r + 1 + w + k
    IN  /\ Ch(s, o) = "("
        /\ o + 1 + Span(s, o + 1, {")"}, FALSE) <= Len(s)

\* The rest of the pattern from the ret_type on, the ret_type starting at p.
DeclTail(s, p, virt) ==
    LET e  == p + Span(s, p, RetCh, TRUE)
        Ws(r) == 1..Span(s, r + 1, SpaceCh, TRUE)
        Nm(r, w) == 1..Span(s, r + 1 + w, WordCh, TRUE)
        R  == {r \in p..(e - 1) :
                 \E w \in Ws(r) : \E k \in Nm(r, w) : NameAndParamsAt(s, r, w, k)}
    IN  IF R = {} THEN NoMatch
        ELSE
          LET r == Max(R)
              w == Max({x \in Ws(r) : \E k \in Nm(r, x) : NameAndParamsAt(s, r, x, k)})
              k == Max({x \in Nm(r, w) : NameAndParamsAt(s, r, w, x)})
              o == r + 1 + w + k
              c == o + 1 + Span(s, o + 1, {")"}, FALSE)
          IN  [matched |-> TRUE, virtual |-> virt,
               ret_type |-> SubSeq(s, p, r),
               name |-> SubSeq(s, r + 1 + w, o - 1),
               params |-> SubSeq(s, o, c),
               qualifiers |-> SubSeq(s, c + 1, QualEnd(s, c + 1) - 1)]

\* The ways ^\s*(virtual)?\s* can match with the first \s* taking a characters,
\* in the order the matcher tries them: with the keyword before without it,
\* the second \s* from its longest run down to nothing.
HeadsAt(s, a) ==
    LET n == Span(s, a + 8, SpaceCh, TRUE)
        m == Span(s, a + 1, SpaceCh, TRUE)
    IN  (IF StartsWith(s, a + 1, "virtual")
         THEN [b \in 1..(n + 1) |-> [virtual |-> TRUE, p |-> a + 8 + (n + 1 - b)]]
         ELSE <<>>)
        \o [b \in 1..(m + 1) |-> [virtual |-> FALSE, p |-> a + 1 + (m + 1 - b)]]

RECURSIVE Heads(_, _)
\* All of them, the first \s* from a characters down to none.
Heads(s, a) == IF a < 0 THEN <<>> ELSE HeadsAt(s, a) \o Heads(s, a - 1)

RECURSIVE FirstMatch(_, _)
FirstMatch(s, heads) ==
    IF heads = <<>> THEN NoMatch
    ELSE LET m == DeclTail(s, heads[1].p, heads[1].virtual)
         IN  IF m.matched THEN m ELSE FirstMatch(s, Tail(heads))

\* method_decl_re.match(statement)
method_decl_re(statement) ==
    FirstMatch(statement, Heads(statement, Span(statement, 1, SpaceCh, TRUE)))


RECURSIVE CollapseSpace(_)
\* re.sub(r"\s+", " ", s): every run of whitespace becomes one blank.
CollapseSpace(s) ==
    LET w == Span(s, 1, SpaceCh, TRUE)
    IN  IF s = "" THEN ""
        ELSE IF w > 0 THEN " " \o CollapseSpace(From(s, w + 1))
        ELSE Ch(s, 1) \o CollapseSpace(From(s, 2))

\* The length of the match of \s*=\s*\w+ at the start of s, 0 when there is none.
DefaultClauseLen(s) ==
    LET a == Span(s, 1, SpaceCh, TRUE)
        b == Span(s, a + 2, SpaceCh, TRUE)
        k == Span(s, a + 2 + b, WordCh, TRUE)
    IN  IF Ch(s, a + 1) = "=" /\ k > 0 THEN a + 1 + b + k ELSE 0

RECURSIVE StripDefaults(_)
\* re.sub(r"\s*=\s*\w+", "", s): the leftmost matches, left to right.
StripDefaults(s) ==
    LET n == DefaultClauseLen(s)
    IN  IF s = "" THEN ""
        ELSE IF n > 0 THEN StripDefaults(From(s, n + 1))
        ELSE Ch(s, 1) \o StripDefaults(From(s, 2))

\* collections.namedtuple("MockMetod", "ret_type name parameters qualifiers")
MockMethod(ret_type, name, parameters, qualifiers) ==
    [ret_type |-> ret_type, name |-> name, parameters |-> parameters,
     qualifiers |-> qualifiers]

\* The list `quals` of parse_method after its two tests on "override".
QualsOf(match) ==
    LET quals == SplitWords(match.qualifiers)
    IN  IF ~InList("override", quals) THEN Append(quals, "override") ELSE quals

\* Accepts without the test on "final".
Accepts_IgnoresFinal(match) ==
    match.virtual \/ InList("override", SplitWords(match.qualifiers))

\* Whether parse_method returns a MockMethod (not None) for a match.
Accepts(match) ==
    LET quals == SplitWords(match.qualifiers)
    IN  /\ ~(~InList("override", quals) /\ ~match.virtual)
        /\ ~InList("final", QualsOf(match))

\* MockMaker.parse_method: <<>> for None, <<m>> for the MockMethod m.
parse_method(match) ==
    IF ~Accepts(match) THEN <<>>
    ELSE <<MockMethod(match.ret_type, match.name,
                      StripDefaults(CollapseSpace(match.params)),
                      Join(QualsOf(match), ", "))>>

\* generate_mock_method
generate_mock_method(m) ==
    "MOCK_METHOD(" \o m.ret_type \o ", " \o m.name \o ", " \o m.parameters
        \o ", (" \o m.qualifiers \o "));"

RECURSIVE MethodsOf(_)
\* The loop over the statements of find_methods_to_mock.
MethodsOf(statements) ==
    IF statements = <<>> THEN <<>>
    ELSE LET match == method_decl_re(statements[1])
         IN  (IF match.matched THEN parse_method(match) ELSE <<>>)
             \o MethodsOf(Tail(statements))

\* re.split(r"[;{}]", content)
Statements(text) == SplitOn(text, {";", "{", "}"})

\* The mock lines make_mock joins.
MockLines(ms) == Join([i \in 1..Len(ms) |-> generate_mock_method(ms[i])], "\n")


(***************************************************************************)
(* The inputs the model runs the program on.                               *)
(***************************************************************************)
RECURSIVE SeqsUpTo(_, _)
\* The sequences over S of length at most n.
SeqsUpTo(S, n) ==
    IF n = 0 THEN {<<>>}
    ELSE LET shorter == SeqsUpTo(S, n - 1)
         IN  shorter \cup {Append(q, x) : q \in shorter, x \in S}

\* A single declaration, built from its parts.
QualWords == {"const", "override", "final"}

RetTypes == {"void", "std::pair<bool, int>"}

ParamLists == {<<>>, <<"int i">>, <<"bool * bar", "bool * baz">>}

\* "" is no default value
Defaults == {"", "0", "5", "-1", "- 1", "Bar()"}

\* "line": one line; "comma": a line break after each comma;
\* "paren": a line break after the opening parenthesis and after each comma
Layouts == {"line", "comma", "paren"}

DeclInputs ==
    [virt : BOOLEAN, ret : RetTypes, params : ParamLists, default : Defaults,
     layout : Layouts, quals : SeqsUpTo(QualWords, MaxQuals), trailer : BOOLEAN]

ParamText(d) ==
    LET one(i) == d.params[i] \o (IF d.default = "" THEN "" ELSE " = " \o d.default)
    IN  "(" \o (IF d.layout = "paren" THEN "\n" ELSE "")
            \o Join([i \in 1..Len(d.params) |-> one(i)],
                    IF d.layout = "line" THEN ", " ELSE ",\n    ")
            \o ")"

DeclText(d) ==
    (IF d.virt THEN "virtual " ELSE "") \o d.ret \o " foo" \o ParamText(d)
        \o Join([i \in 1..Len(d.quals) |-> " " \o d.quals[i]], "")
        \o (IF d.trailer THEN " = 0" ELSE "") \o ";"

\* A header text of some lines; the declaration on line i is named m<i>.
LineKinds == {"header", "header_open", "oneline", "other_open", "mention",
              "open", "close", "decl", "base", "inline"}

TargetName == "T"

MName(i) == "m" \o SubSeq("123456789", i, i)

LineText(kind, i) ==
    CASE kind = "header"      -> "class T"
      [] kind = "header_open" -> "class T {"
      [] kind = "oneline"     -> "class T { void " \o MName(i) \o "() override; };"
      [] kind = "other_open"  -> "class U {"
      [] kind = "mention"     -> "virtual T * " \o MName(i) \o "();"
      [] kind = "open"        -> "{"
      [] kind = "close"       -> "};"
      [] kind = "decl"        -> "  void " \o MName(i) \o "() override;"
      [] kind = "base"        -> "  : public Base"
      [] kind = "inline"      -> "  virtual int " \o MName(i) \o "() { return 0; }"

TextInputs == SeqsUpTo(LineKinds, MaxLines) \ {<<>>}

TextOf(kinds) == Join([i \in 1..Len(kinds) |-> LineText(kinds[i], i)], "\n")

(***************************************************************************)
(* MockMaker.make_mock, step by step.                                      *)
(***************************************************************************)
Idle ==
    /\ content = ""
    /\ lines = <<>>
    /\ li = 1
    /\ count = 0
    /\ class_brace_level = <<>>
    /\ content_of_interest = <<>>
    /\ collected = <<>>
    /\ open_line = 0
    /\ stop_line = 0
    /\ methods = <<>>
    /\ output = ""

NoDelegation ==
    /\ method = MockMethod("", "", "", "")
    /\ args = <<>>
    /\ index = 0
    /\ arg_pholders = <<>>
    /\ arg_names = <<>>
    /\ arg_type_and_names = <<>>
    /\ result = ""

\* MockMaker(target_class="T") given a header text.
Init ==
    /\ pc = "read"
    /\ input \in [kind : {"text"}, kinds : TextInputs]
    /\ target_class = <<TargetName>>
    /\ Idle
    /\ NoDelegation

\* MockMaker() given one declaration.
InitDecl ==
    /\ pc = "read"
    /\ input \in [kind : {"decl"}, decl : DeclInputs]
    /\ target_class = <<>>
    /\ Idle
    /\ NoDelegation

InputText == IF input.kind = "text" THEN TextOf(input.kinds) ELSE DeclText(input.decl)

\* find_methods_to_mock up to the loop over the lines.
Read ==
    /\ pc = "read"
    /\ content' = InputText
    /\ lines' = IF target_class # <<>> THEN SplitOn(InputText, {"\n"}) ELSE <<>>
    /\ pc' = IF target_class # <<>> THEN "scan" ELSE "extract"
    /\ UNCHANGED <<input, target_class, li, count, class_brace_level,
                   content_of_interest, collected, open_line, stop_line,
                   methods, output>>
    /\ UNCHANGED delegVars

\* BraceCounter.process
process(n, statement) == n + CountCh(statement, "{") - CountCh(statement, "}")

\* The test of the scan on a line while class_brace_level is None: the line
\* is passed over when it holds neither "class" nor the target class.
IsOpeningLine(line, target) ==
    ~(~Contains(line, "class") /\ ~Contains(line, target))

\* The baseline depth the opening line sets.
BaseLevel(n, line) == n + (IF Contains(line, "{") THEN 0 ELSE 1)

\* Whether the scan breaks on a line after which the counter is n.
Breaks(n, level) == n < level

\* One turn of the loop over the lines.
ScanLine ==
    /\ pc = "scan"
    /\ li <= Len(lines)
    /\ LET line == lines[li]
           n == process(count, line)
           looking == class_brace_level = <<>>
           opening == looking /\ IsOpeningLine(line, target_class[1])
           break == ~looking /\ Breaks(n, class_brace_level[1])
           append == ~looking /\ ~break
       IN  /\ count' = n
           /\ class_brace_level' =
                  IF opening THEN <<BaseLevel(n, line)>> ELSE class_brace_level
           /\ open_line' = IF opening THEN li ELSE open_line
           /\ stop_line' = IF break THEN li ELSE stop_line
           /\ content_of_interest' =
                  IF append THEN Append(content_of_interest, line)
                  ELSE content_of_interest
           /\ collected' = IF append THEN Append(collected, li) ELSE collected
           /\ li' = li + 1
           /\ pc' = IF break \/ li = Len(lines) THEN "extract" ELSE "scan"
    /\ UNCHANGED <<input, target_class, content, lines, methods, output>>
    /\ UNCHANGED delegVars

\* The rest of find_methods_to_mock: the collected lines joined, the text
\* split into statements, each statement matched and parsed.
Extract ==
    /\ pc = "extract"
    /\ LET text == IF target_class # <<>> THEN Join(content_of_interest, "\n")
                   ELSE content
       IN  /\ content' = text
           /\ methods' = MethodsOf(Statements(text))
    /\ pc' = "write"
    /\ UNCHANGED <<input, target_class, output>>
    /\ UNCHANGED scanVars
    /\ UNCHANGED delegVars

\* make_mock after find_methods_to_mock returned.
Write ==
    /\ pc = "write"
    /\ output' = MockLines(methods)
    /\ pc' = "done"
    /\ UNCHANGED <<input, target_class, content, methods>>
    /\ UNCHANGED scanVars
    /\ UNCHANGED delegVars

Next == Read \/ ScanLine \/ Extract \/ Write

Spec == Init /\ [][Next]_vars

NextDecl == Read \/ Extract \/ Write

SpecDecl == InitDecl /\ [][NextDecl]_vars


(***************************************************************************)
(* generate_default_delegation                                             *)
(***************************************************************************)
\* The parameter pattern, matched with re.match:
\*   ^\s*(?P<arg_type>(?:const\s+)?[:\w]+(?:\s*[\*\&])?)\s*(?P<arg_name>\w+)?
\*   \s*(= 0)?\s*$
\* Each stage below is the pattern from one of its parts on, from position i;
\* a greedy part takes the longest run with which the rest still matches, an
\* optional part is taken when the rest matches with it.
NoArg == [ok |-> FALSE, type_start |-> 0, type_end |-> 0, arg_name |-> None,
          named |-> FALSE, trailer |-> FALSE]

\* \s*$
AtEnd(s, i) == i + Span(s, i, SpaceCh, TRUE) = Len(s) + 1

\* (= 0)?\s*$
ArgTrailer(s, i) ==
    IF StartsWith(s, i, "= 0") /\ AtEnd(s, i + 3)
    THEN [NoArg EXCEPT !.ok = TRUE, !.trailer = TRUE]
    ELSE IF AtEnd(s, i) THEN [NoArg EXCEPT !.ok = TRUE]
    ELSE NoArg

\* The result of the longest take for which the rest matches: of the pairs
\* [n |-> characters taken, m |-> match of the rest], the m that is ok with
\* the largest n; NoArg when none is ok.
Longest(tries) ==
    LET good == {t \in tries : t.m.ok}
    IN  IF good = {} THEN NoArg
        ELSE (CHOOSE t \in good : \A u \in good : u.n <= t.n).m

\* \s*(= 0)?\s*$
ArgSpace2(s, i) ==
    Longest({[n |-> w, m |-> ArgTrailer(s, i + w)] :
                w \in 0..Span(s, i, SpaceCh, TRUE)})

\* (?P<arg_name>\w+)?\s*(= 0)?\s*$: the group takes k >= 1 characters, or
\* (k = 0) takes no part.
ArgName(s, i) ==
    Longest({[n |-> k,
              m |-> IF k = 0 THEN ArgSpace2(s, i + k)
                    ELSE [ArgSpace2(s, i + k) EXCEPT
                             !.arg_name = SubSeq(s, i, i + k - 1), !.named = TRUE]] :
                k \in 0..Span(s, i, WordCh, TRUE)})

\* \s*(?P<arg_name>\w+)?\s*(= 0)?\s*$: what follows the arg_type group
ArgSpace1(s, i) ==
    Longest({[n |-> w, m |-> ArgName(s, i + w)] :
                w \in 0..Span(s, i, SpaceCh, TRUE)})

\* (?:\s*[\*\&])? and what follows: the group takes w blanks and the sign
\* (n = w + 1), or (n = 0) takes no part; type_end is where arg_type ends.
ArgPointer(s, i) ==
    Longest({[n |-> n,
              m |-> IF n > 0 /\ Ch(s, i + n - 1) \notin {"*", "&"} THEN NoArg
                    ELSE [ArgSpace1(s, i + n) EXCEPT !.type_end = i + n - 1]] :
                n \in 0..(Span(s, i, SpaceCh, TRUE) + 1)})

\* [:\w]+ and what follows
ArgTypeWord(s, i) ==
    Longest({[n |-> k, m |-> ArgPointer(s, i + k)] :
                k \in 1..Span(s, i, ArgTypeCh, TRUE)})

\* (?:const\s+)? and what follows: the group takes "const" and w >= 1 blanks
\* (n = 5 + w), or (n = 0) takes no part.
ArgConst(s, i) ==
    LET ws == IF StartsWith(s, i, "const") THEN Span(s, i + 5, SpaceCh, TRUE) ELSE 0
    IN  Longest({[n |-> n, m |-> ArgTypeWord(s, i + n)] :
                    n \in {0} \cup {5 + w : w \in 1..ws}})

\* ^\s* and what follows; type_start is where arg_type starts.
ArgLead(s) ==
    Longest({[n |-> a, m |-> [ArgConst(s, a + 1) EXCEPT !.type_start = a + 1]] :
                a \in 0..Span(s, 1, SpaceCh, TRUE)})

\* The match of the whole pattern on one parameter: ok, the arg_type and
\* arg_name groups (None when the name took no part) and m.lastindex.
arg_re(arg) ==
    LET m == ArgLead(arg)
    IN  [ok |-> m.ok,
         arg_type |-> IF m.ok THEN SubSeq(arg, m.type_start, m.type_end) ELSE "",
         arg_name |-> m.arg_name,
         lastindex |-> IF ~m.ok THEN 0 ELSE IF m.trailer THEN 3
                       ELSE IF m.named THEN 2 ELSE 1]

RECURSIVE Str(_)
\* str(index) of a natural number: its decimal digits.
Str(n) ==
    IF n < 10 THEN SubSeq("0123456789", n + 1, n + 1)
    ELSE Str(n \div 10) \o SubSeq("0123456789", (n % 10) + 1, (n % 10) + 1)

\* The name generate_default_delegation gives the parameter of a match m at
\* position index of the list (None when group arg_name is None).
ArgNameOf(m, idx) == IF m.lastindex >= 2 THEN m.arg_name ELSE "p" \o Str(idx)

\* What an f-string makes of a name.
Format(x) == IF x = None THEN "None" ELSE x

\* The value str.join raises TypeError on.
TypeError == "<TypeError>"

ArgForms == {"int", "int val", "const char * str", "string &", "int = 0",
             "int val = 0", "unsigned int x", "const std::string &"}

\* generate_default_delegation(MockMethod("int", "DoThis", "(...)", "const"))
InitDeleg ==
    /\ pc = "call"
    /\ input \in [kind : {"args"}, params : SeqsUpTo(ArgForms, MaxArgs)]
    /\ target_class = <<>>
    /\ Idle
    /\ method = MockMethod("int", "DoThis", "(" \o Join(input.params, ", ") \o ")",
                           "const")
    /\ args = <<>>
    /\ index = 0
    /\ arg_pholders = <<>>
    /\ arg_names = <<>>
    /\ arg_type_and_names = <<>>
    /\ result = ""

\* The list the loop enumerates.
DelegSplit ==
    /\ pc = "call"
    /\ args' = SplitOn(RemoveCh(RemoveCh(method.parameters, "("), ")"), {","})
    /\ pc' = "args"
    /\ UNCHANGED <<input, target_class, content, methods, output, method, index,
                   arg_pholders, arg_names, arg_type_and_names, result>>
    /\ UNCHANGED scanVars

\* One turn of the loop over the parameters; index counts from 0.
DelegArg ==
    /\ pc = "args"
    /\ index < Len(args)
    /\ LET m == arg_re(args[index + 1])
           arg_name == ArgNameOf(m, index)
       IN  IF ~m.ok
           THEN UNCHANGED <<arg_pholders, arg_names, arg_type_and_names>>
           ELSE /\ arg_type_and_names' =
                       Append(arg_type_and_names, m.arg_type \o " " \o Format(arg_name))
                /\ arg_names' = Append(arg_names, arg_name)
                /\ arg_pholders' = Append(arg_pholders, "_")
    /\ index' = index + 1
    /\ UNCHANGED <<pc, input, target_class, content, methods, output, method,
                   args, result>>
    /\ UNCHANGED scanVars

\* The statement built after the loop; joining a None raises TypeError.
DelegReturn ==
    /\ pc = "args"
    /\ index = Len(args)
    /\ result' =
           IF InList(None, arg_names) THEN TypeError
           ELSE "ON_CALL(*this, " \o method.name \o "(" \o Join(arg_pholders, ", ")
                \o ")).WillByDefault(Invoke([](" \o Join(arg_type_and_names, ", ")
                \o ") { return real->" \o method.name \o "("
                \o Join(arg_names, ", ") \o "); }));"
    /\ pc' = "returned"
    /\ UNCHANGED <<input, target_class, content, methods, output, method, args,
                   index, arg_pholders, arg_names, arg_type_and_names>>
    /\ UNCHANGED scanVars

NextDeleg == DelegSplit \/ DelegArg \/ DelegReturn

SpecDeleg == InitDeleg /\ [][NextDeleg]_vars


(***************************************************************************)
(* What the claims speak of.                                               *)
(***************************************************************************)
\* make_mock has returned.
Found == pc = "done"

\* The match of the one declaration of a declaration input.
DeclMatch == method_decl_re(Statements(DeclText(input.decl))[1])

\* The qualifier words the qualifiers group of that match captured.
DeclQuals == SplitWords(DeclMatch.qualifiers)

\* The methods make_mock finds in a text, without a target class.
MethodsIn(text) == MethodsOf(Statements(text))

ParamsOf(ms) == [i \in 1..Len(ms) |-> ms[i].parameters]

\* How often x occurs in a list.
Occurrences(x, seq) == Cardinality({i \in 1..Len(seq) : seq[i] = x})

\* The words of an emitted qualifier string "a, b, c".
EmittedQuals(q) == SplitWords(RemoveCh(q, ","))

\* C1: for a statement that matches the declarator grammar, parse_method
\* yields a signature exactly when (the virtual keyword was captured or
\* override is among the captured qualifiers) and final is not among them,
\* and the same declaration with or without a trailing "= 0" has the same
\* outcome.
C1_AcceptedIffVirtualOrOverrideAndNotFinal ==
    (input.kind = "decl" /\ Found) =>
        /\ DeclMatch.matched
        /\ (Len(methods) = 1) <=>
               /\ DeclMatch.virtual \/ InList("override", DeclQuals)
               /\ ~InList("final", DeclQuals)
        /\ Len(methods) \in {0, 1}
        /\ methods = MethodsIn(DeclText([input.decl EXCEPT !.trailer = ~@]))

\* C1 witness: a declaration without virtual, with override and a "= 0"
\* trailer, was accepted, and one that is virtual and final was not.
C1_Witness ==
    /\ input.kind = "decl"
    /\ pc = "done"
    /\ ~input.decl.virt
    /\ input.decl.quals = <<"const", "override">>
    /\ input.decl.trailer
    /\ input.decl.default = ""
    /\ Len(methods) = 1
    /\ methods[1].qualifiers = "const, override"

\* C4 as stated: for every accepted declaration, whatever sequence of trailing
\* qualifier words the source carries, the emitted qualifier string holds
\* override exactly once and is the source qualifiers in the order
\* encountered joined with ", ", override appended last only when the source
\* did not carry it.
C4_OverrideExactlyOnce ==
    (input.kind = "decl" /\ Found /\ methods # <<>>) =>
        /\ Occurrences("override", EmittedQuals(methods[1].qualifiers)) = 1
        /\ methods[1].qualifiers =
               Join(input.decl.quals
                        \o (IF InList("override", input.decl.quals) THEN <<>>
                            ELSE <<"override">>), ", ")

\* C5 as stated: for every accepted declaration with default values of the
\* forms = 0, = 5, = -1, = - 1, = Bar(), the emitted parameter list is the one
\* of the same declaration written without default values.
C5_DefaultValuesStripped ==
    (input.kind = "decl" /\ Found /\ methods # <<>>) =>
        ParamsOf(methods) =
            ParamsOf(MethodsIn(DeclText([input.decl EXCEPT !.default = ""])))

\* C6 as stated: for every accepted declaration, line breaks and blanks in
\* the parameter list (after a comma, after the opening parenthesis) do not
\* change the emitted parameter list: it is the one of the single-line form.
C6_LayoutDoesNotMatter ==
    (input.kind = "decl" /\ Found /\ methods # <<>>) =>
        ParamsOf(methods) =
            ParamsOf(MethodsIn(DeclText([input.decl EXCEPT !.layout = "line"])))

RECURSIVE ExpectedNames(_, _)
\* C7's names for the first n parameters of a list: of each parameter that
\* matches the pattern, the captured identifier when one was captured and
\* p<i> otherwise, i the parameter's 0-based position.
ExpectedNames(as, n) ==
    IF n = 0 THEN <<>>
    ELSE LET m == arg_re(as[n])
         IN  ExpectedNames(as, n - 1)
             \o (IF ~m.ok THEN <<>>
                 ELSE IF m.arg_name # None THEN <<m.arg_name>>
                 ELSE <<"p" \o Str(n - 1)>>)

\* C7 as stated: the names used are the captured identifier or p<i> with the
\* original position i (also for a nameless parameter with a "= 0" trailer),
\* parameters that do not match are passed over, the three lists have one
\* length, and the statement is built from those names.
C7_NamesCapturedOrPositional ==
    (input.kind = "args" /\ pc \in {"args", "returned"}) =>
        /\ arg_names = ExpectedNames(args, index)
        /\ Len(arg_pholders) = Len(arg_names)
        /\ Len(arg_type_and_names) = Len(arg_names)
        /\ result # TypeError

(***************************************************************************)
(* The target class as the text has it, for the claims on scoping.         *)
(***************************************************************************)
\* The position of the first occurrence of sub in s, 0 when there is none.
Find(s, sub) ==
    LET P == {i \in 1..Len(s) : StartsWith(s, i, sub)}
    IN  IF P = {} THEN 0 ELSE CHOOSE i \in P : \A j \in P : i <= j

RECURSIVE DepthNeverNegative(_, _)
\* The braces of s are balanced: the depth, d before s, never falls below
\* zero and ends at zero.
DepthNeverNegative(s, d) ==
    IF s = "" THEN d = 0
    ELSE LET n == d + (IF Ch(s, 1) = "{" THEN 1 ELSE 0)
                    - (IF Ch(s, 1) = "}" THEN 1 ELSE 0)
         IN  n >= 0 /\ DepthNeverNegative(From(s, 2), n)

Balanced(s) == DepthNeverNegative(s, 0)

RECURSIVE ClosingOf(_, _, _)
\* The position of the brace that closes the one open before position i at
\* depth d, 0 when there is none.
ClosingOf(s, i, d) ==
    IF i > Len(s) THEN 0
    ELSE IF Ch(s, i) = "}" THEN (IF d = 1 THEN i ELSE ClosingOf(s, i + 1, d - 1))
    ELSE IF Ch(s, i) = "{" THEN ClosingOf(s, i + 1, d + 1)
    ELSE ClosingOf(s, i + 1, d)

\* The header of the target class, its opening brace and its closing brace.
HeaderPos == Find(InputText, "class " \o TargetName)

OpenPos ==
    IF HeaderPos = 0 THEN 0
    ELSE LET o == HeaderPos + Span(InputText, HeaderPos, {"{"}, FALSE)
         IN  IF o > Len(InputText) THEN 0 ELSE o

ClosePos == IF OpenPos = 0 THEN 0 ELSE ClosingOf(InputText, OpenPos + 1, 1)

\* The text is a header in which the target class is defined once, with its
\* pair of braces.
WellFormed ==
    /\ input.kind = "text"
    /\ Balanced(InputText)
    /\ ClosePos # 0
    /\ Cardinality({i \in 1..Len(input.kinds) :
                       input.kinds[i] \in {"header", "header_open", "oneline"}}) = 1

\* The line of a position of the text.
LineOf(p) == 1 + CountCh(SubSeq(InputText, 1, p), "\n")

\* A position lies inside the braces of the target class.
InsideTarget(p) == OpenPos < p /\ p < ClosePos

\* The lines that declare a method, all virtual or override and not final.
DeclKinds == {"oneline", "mention", "decl", "inline"}

\* The scan over the lines is over.
Scanned == pc \in {"extract", "write", "done"}

\* The depth after the first j lines.
DepthAfter(j) == process(0, Join(SubSeq(lines, 1, j), "\n"))

\* C2 as stated: with a target class, no declaration outside the braces of
\* the target class (before its header, after its closing brace, in another
\* class) is in the output.
C2_NothingOutsideTargetEmitted ==
    (WellFormed /\ pc = "done") =>
        \A k \in 1..Len(methods) : InsideTarget(Find(InputText, methods[k].name))

\* C3 as stated: with a target class, every virtual or override declaration
\* inside the braces of the target class is emitted, also when header, body
\* and closing brace share one line.
C3_EverythingInsideTargetEmitted ==
    (WellFormed /\ pc = "done") =>
        \A i \in 1..Len(input.kinds) :
            (input.kinds[i] \in DeclKinds /\ InsideTarget(Find(InputText, MName(i))))
                => \E k \in 1..Len(methods) : methods[k].name = MName(i)

\* C8 as stated: the line that fixes the baseline holds both "class" and the
\* name of the target class; a line with only one of them never does.
C8_OpeningLineHoldsClassAndName ==
    (input.kind = "text" /\ open_line # 0) =>
        /\ Contains(lines[open_line], "class")
        /\ Contains(lines[open_line], TargetName)

\* The opening line of the scan is the header of the target class and has
\* no brace; base-class lines follow it, then the line of the "{".
HeaderWithoutBrace ==
    /\ WellFormed
    /\ open_line # 0
    /\ open_line = LineOf(HeaderPos)
    /\ ~Contains(lines[open_line], "{")
    /\ input.kinds[LineOf(OpenPos)] = "open"
    /\ \A j \in (open_line + 1)..(LineOf(OpenPos) - 1) : input.kinds[j] = "base"

\* C9 as stated: when the opening line has no "{", the baseline is the depth
\* plus 1, lines without a brace between the header and the line of the "{"
\* do not end the collection, and the lines from the "{" up to the closing
\* line of the class are returned.
C9_BraceOnAnyLaterLine ==
    (HeaderWithoutBrace /\ Scanned) =>
        /\ class_brace_level = <<DepthAfter(open_line) + 1>>
        /\ \A j \in LineOf(OpenPos)..(LineOf(ClosePos) - 1) : InList(j, collected)

\* C10 as stated: once the opening line was found, the collection ends at
\* the line of the brace that closes the target class: braces that open and
\* close inside the class do not end it, the scan stops at that line, and
\* neither that line nor a later one is collected.
C10_EndsAtClosingBraceOfTarget ==
    (WellFormed /\ open_line = LineOf(HeaderPos) /\ Scanned) =>
        /\ \A j \in (open_line + 1)..(LineOf(ClosePos) - 1) : InList(j, collected)
        /\ \A k \in 1..Len(collected) : collected[k] < LineOf(ClosePos)
        /\ stop_line # 0 => stop_line = LineOf(ClosePos)

====
